---- MODULE Spec2Model ----
(***************************************************************************)
(* DiagnoAI: the usage/quota controller (auth_utils.py, db_utils.py) and   *)
(* the request handler main() of app.py, as a state machine over a set of  *)
(* Streamlit sessions that share one row of the table bbt_user_doctorai.   *)
(*                                                                         *)
(* Every session runs its script in its own thread, so the sessions        *)
(* interleave at the database operations: one action is one stretch of     *)
(* session-local code ending in at most one database statement.            *)
(*                                                                         *)
(* Times are integer epoch seconds (auth_utils.py:124 takes                *)
(* int(datetime.now().timestamp()) and int(subscription_expires_at)).      *)
(***************************************************************************)
EXTENDS Integers, FiniteSets, TLC

\* ---------------------------------------------------------------- bounds
\* Number of concurrent Streamlit sessions of the one identity.
NumSessions == 2
\* The clock runs over 1..MaxTime; expiry times over 1..MaxTime-1.
MaxTime == 2
\* The stored usage_count is explored up to MaxUsage (it is unbounded in the code).
MaxUsage == 7

\* ------------------------------------------------------- program constants
FREE_USAGE_LIMIT == 6
PREMIUM_USAGE_LIMIT == 20

\* Python's None for subscription_expires_at; like 0 it is falsy in
\* `if st.session_state.subscription_expires_at and ...`.
None == 0

Sessions == 1..NumSessions
\* The session of the one-session-at-a-time specification.
FirstSession == CHOOSE s \in Sessions : \A r \in Sessions : s <= r
ExpiryValues == {None} \cup (1..(MaxTime - 1))

\* user_email values: None (no e-mail), "" (a token without an e-mail claim,
\* auth_utils.py:64) and the identity's e-mail.
NoEmail == "None"
EmptyEmail == ""
UserEmail == "user@example.com"

MULTI_CLASS_NAMES == <<"Edema", "Normal", "Pneumonia", "Tuberculosis", "Effusion">>

\* Where a session's script can be between two script runs.
Rest == {"idle", "Unauthorized", "QuotaExceeded", "PersistenceFailure",
         "DecodeError", "RejectedAsNonXray", "Delivered"}

VARIABLES
    db,             \* the identity's row of bbt_user_doctorai
    now,            \* the wall clock
    session_state,  \* st.session_state of each session
    token,          \* whether the session's URL still carries ?token=...
    pc,             \* where each session's script is
    current_db_count, \* increment_usage's local of that name
    req,            \* what the session's current request has done so far
    okCalls,        \* history: how many free-path increment_usage calls returned True
    demoted,        \* history: a quota check demoted the session since the last confirmation
    premium_consumed, \* history, where it is kept: premium classifications delivered since the
                    \* last confirmation, "none" or "some"
    image,          \* is_xray_image's argument, as the statistics the function takes of it
    gate_result,    \* what is_xray_image did with it
    prediction,     \* what the two classifiers answer for an image
    report          \* what main() shows for that prediction

\* The state of the quota machine, and that of the two pure functions.
quota_vars == <<db, now, session_state, token, pc, current_db_count, req, okCalls, demoted,
          premium_consumed,
                premium_consumed>>
pure_vars == <<image, gate_result, prediction, report>>
vars == <<db, now, session_state, token, pc, current_db_count, req, okCalls, demoted,
          premium_consumed,
          image, gate_result, prediction, report>>

\* init_session_state: the defaults of every session variable.
init_session_state ==
    [authenticated |-> FALSE, user_email |-> NoEmail, paid_user |-> FALSE,
     premium_user |-> FALSE, usage_count |-> 0, premium_usage_count |-> 0,
     subscription_expires_at |-> None]

\* What a request has done: counters touched, store written, classifiers invoked.
NewRequest ==
    [charged |-> FALSE, recorded |-> FALSE, readOk |-> FALSE,
     multi_calls |-> 0, edema_calls |-> 0]

InitMachine ==
    /\ db = [exists |-> FALSE, usage_count |-> 0, premium_usage_count |-> 0,
             paid_user |-> FALSE, subscription_expires_at |-> None]
    /\ now = 1
    /\ session_state = [s \in Sessions |-> init_session_state]
    /\ token = [s \in Sessions |-> FALSE]
    /\ pc = [s \in Sessions |-> "idle"]
    /\ current_db_count = [s \in Sessions |-> 0]
    /\ req = [s \in Sessions |-> NewRequest]
    /\ okCalls = 0
    /\ demoted = [s \in Sessions |-> FALSE]

\* The quota machine at its start, no history of premium deliveries kept.
InitQuota ==
    /\ InitMachine
    /\ premium_consumed = "not_kept"

\* Nothing has been shown yet.
NoReport == [shown |-> "none"]

\* No image and no prediction are under study.
InitPure ==
    /\ image = "none"
    /\ gate_result = "none"
    /\ prediction = "none"
    /\ report = NoReport

Init == InitQuota /\ InitPure

\* ------------------------------------------------------------ pure helpers
\* Python truthiness of a count or timestamp: None and 0 are falsy.
Truthy(x) == x # None

\* `st.session_state.paid_user or st.session_state.get("premium_user", False)`
IsPremium(st) == st.paid_user \/ st.premium_user

\* `not user_email`: None and "" are falsy.
NoUserEmail(st) == st.user_email \in {NoEmail, EmptyEmail}

\* The first branch of check_premium_subscription.
Expired(st, t) ==
    Truthy(st.subscription_expires_at) /\ t > st.subscription_expires_at

\* Exhausted with the comparison off by one.
Exhausted_off_by_one(st) == st.premium_usage_count > PREMIUM_USAGE_LIMIT

\* The second branch of check_premium_subscription.
Exhausted(st) == st.premium_usage_count >= PREMIUM_USAGE_LIMIT

\* check_premium_subscription that also starts the premium count afresh when it demotes.
check_premium_subscription_resets_count(st, t) ==
    IF IsPremium(st) /\ (Expired(st, t) \/ Exhausted(st))
    THEN [st EXCEPT !.paid_user = FALSE, !.premium_user = FALSE,
                    !.premium_usage_count = 0]
    ELSE st

\* check_premium_subscription: the session state it leaves.
check_premium_subscription(st, t) ==
    IF IsPremium(st) /\ (Expired(st, t) \/ Exhausted(st))
    THEN [st EXCEPT !.paid_user = FALSE, !.premium_user = FALSE]
    ELSE st

\* check_premium_subscription: the value it returns.
check_premium_subscription_result(st, t) ==
    IsPremium(st) /\ ~Expired(st, t) /\ ~Exhausted(st)

\* check_usage_limit deciding on the tier flags as they were before
\* check_premium_subscription ran.
check_usage_limit_stale_flags(st, t) ==
    IF IsPremium(st)
    THEN st.premium_usage_count < PREMIUM_USAGE_LIMIT
    ELSE st.usage_count < FREE_USAGE_LIMIT

\* check_usage_limit: the value it returns (the state it leaves is that of
\* check_premium_subscription, which it calls first).
check_usage_limit(st, t) ==
    LET after == check_premium_subscription(st, t)
    IN  IF IsPremium(after)
        THEN after.premium_usage_count < PREMIUM_USAGE_LIMIT
        ELSE after.usage_count < FREE_USAGE_LIMIT

\* get_user_usage_from_db: 0 when the connection fails, when there is no row,
\* and for a NULL or 0 count.
get_user_usage_from_db(ok) ==
    IF ok /\ db.exists THEN db.usage_count ELSE 0

\* app.py:68: the script reaches main() unless it handles a token first;
\* SECRET_KEY is None when the secrets lookup of this run failed.
MainRuns(s) == \E secret_ok \in BOOLEAN : ~(token[s] /\ secret_ok)

\* get_user_status_from_db: the row, or the fallback dictionary (which has no
\* subscription_expires_at key) when the connection fails or there is no row.
\* The row of the e-mail "" is the one ensure_user_exists inserted: all zero.
get_user_status_from_db(email, ok, row) ==
    IF ok /\ email = UserEmail /\ row.exists
    THEN [has_expiry |-> TRUE, usage_count |-> row.usage_count,
          paid_user |-> row.paid_user,
          premium_usage_count |-> row.premium_usage_count,
          subscription_expires_at |-> row.subscription_expires_at]
    ELSE [has_expiry |-> ok, usage_count |-> 0, paid_user |-> FALSE,
          premium_usage_count |-> 0, subscription_expires_at |-> None]

\* init_user_session: the four assignments in order; the fourth raises KeyError
\* on the fallback dictionary and leaves subscription_expires_at as it was.
init_user_session(st, status) ==
    [st EXCEPT !.usage_count = status.usage_count,
               !.paid_user = status.paid_user,
               !.premium_usage_count = status.premium_usage_count,
               !.subscription_expires_at =
                   IF status.has_expiry THEN status.subscription_expires_at ELSE @]

\* ensure_user_exists: the row after a successful call (inserted all zero when absent).
ensure_user_exists(email, row) ==
    IF email = UserEmail /\ ~row.exists
    THEN [exists |-> TRUE, usage_count |-> 0, premium_usage_count |-> 0,
          paid_user |-> FALSE, subscription_expires_at |-> None]
    ELSE row

\* ------------------------------------------------- classification pipeline
\* Classifier outputs are in percent (the code's floats in [0, 1] times 100).
Scores == {20, 60}
\* multi_model.predict(img_array)[0]: one score per class, indexed as the code does.
Predictions == [0..4 -> Scores]
\* edema_model.predict(img_array)[0][0]
EdemaOutputs == {0, 30, 49, 50, 51, 70, 100}
\* The answers a request of the quota machine is given: one with each class
\* alone on top, and the five-way tie.
RequestPredictions ==
    {p \in Predictions : Cardinality({i \in DOMAIN p : p[i] = 60}) \in {1, 5}}

\* np.argmax: the first index that holds the maximum.
argmax(p) ==
    CHOOSE i \in DOMAIN p :
        /\ \A j \in DOMAIN p : p[j] <= p[i]
        /\ \A j \in DOMAIN p : j < i => p[j] < p[i]

\* The routing test of app.py:197 on another class.
invokes_edema_model_on_normal(predicted_class_name) == predicted_class_name = "Normal"

\* app.py:197: whether the secondary classifier is run.
invokes_edema_model(predicted_class_name) == predicted_class_name = "Edema"

\* The display that lets the second opinion relabel the image.
display_relabels(predicted_class_name, confidence, edema_invoked, edema_prediction) ==
    IF predicted_class_name = "Edema" /\ edema_invoked
    THEN IF edema_prediction >= 50
         THEN [class_name |-> "Edema", confidence |-> edema_prediction,
               specialist |-> TRUE, note |-> "consult"]
         ELSE [class_name |-> "NotEdema", confidence |-> 100 - edema_prediction,
               specialist |-> TRUE, note |-> "consult"]
    ELSE [class_name |-> predicted_class_name, confidence |-> confidence,
          specialist |-> FALSE,
          note |-> IF predicted_class_name = "Normal" THEN "no_signs" ELSE "consult"]

\* app.py:204-218: the class and confidence shown, whether it is marked as the
\* specialist's opinion, and the line under it.
display(predicted_class_name, confidence, edema_invoked, edema_prediction) ==
    IF predicted_class_name = "Normal"
    THEN [class_name |-> predicted_class_name, confidence |-> confidence,
          specialist |-> FALSE, note |-> "no_signs"]
    ELSE IF predicted_class_name = "Edema" /\ edema_invoked
         THEN IF edema_prediction >= 50
              THEN [class_name |-> "Edema", confidence |-> edema_prediction,
                    specialist |-> TRUE, note |-> "consult"]
              ELSE [class_name |-> predicted_class_name, confidence |-> confidence,
                    specialist |-> FALSE, note |-> "second_opinion_not_edema"]
         ELSE [class_name |-> predicted_class_name, confidence |-> confidence,
               specialist |-> FALSE, note |-> "consult"]

\* app.py:189-218 for one pair of classifier answers: what is shown, and
\* whether the secondary classifier was run to get it.
classify(multi_prediction, edema_output) ==
    LET predicted_class_index == argmax(multi_prediction)
        predicted_class_name == MULTI_CLASS_NAMES[predicted_class_index + 1]
        confidence == multi_prediction[predicted_class_index]
        edema_invoked == invokes_edema_model(predicted_class_name)
    IN  [shown |-> display(predicted_class_name, confidence, edema_invoked, edema_output),
         edema_invoked |-> edema_invoked]

\* ------------------------------------------------------ authenticity gate
\* An image is modelled by the statistics is_xray_image takes of it. Intensities
\* are whole grey levels, the correlation is in tenths, NaN is a value of its own.
NaN == [nan |-> TRUE, v |-> 0]
Num(x) == [nan |-> FALSE, v |-> x]

\* A comparison that NaN passes.
gt_nan_passes(x, c) == x.nan \/ x.v > c

\* x > c on floats: every comparison with NaN is False.
gt(x, c) == ~x.nan /\ x.v > c

\* np.corrcoef(left, right)[0, 1]: the covariance over the product of the two
\* standard deviations; 0/0 is NaN (a RuntimeWarning, no exception).
corrcoef(left_var, right_var, corr_tenths) ==
    IF left_var = 0 \/ right_var = 0 THEN NaN ELSE Num(corr_tenths)

np_max(S) == CHOOSE x \in S : \A y \in S : y <= x
np_min(S) == CHOOSE x \in S : \A y \in S : x <= y

\* ui_utils.py:365: np.max(hist_peaks) - np.min(hist_peaks) if len(hist_peaks) > 1 else 0
peak_spread(hist_peaks) ==
    IF Cardinality(hist_peaks) > 1 THEN np_max(hist_peaks) - np_min(hist_peaks) ELSE 0

\* The spread taken without looking at the number of peaks: np.max of an empty
\* array raises ValueError.
peak_spread_raises_unguarded(hist_peaks) == hist_peaks = {}

\* Whether computing peak_spread raises: np.max and np.min are reached only
\* with more than one peak.
peak_spread_raises(hist_peaks) == Cardinality(hist_peaks) > 1 /\ hist_peaks = {}

\* ui_utils.py:372-380: the list of seven conditions.
conditions(img) ==
    << 20 < img.mean_intensity /\ img.mean_intensity < 235,
       15 < img.std_intensity /\ img.std_intensity < 80,
       img.local_contrast_mean < 25,
       Cardinality(img.hist_peaks) >= 2,
       peak_spread(img.hist_peaks) > 30,
       gt(corrcoef(img.left_var, img.right_var, img.corr_tenths), -3),
       10 * img.max_histogram < 3 * img.n_pixels >>

\* Python's any().
any(conds) == \E i \in DOMAIN conds : conds[i]

\* Python's all().
all(conds) == \A i \in DOMAIN conds : conds[i]

\* ui_utils.py:328-389: "accept" is True, "reject" is False, "raise" an exception.
is_xray_image(img) ==
    IF img.ndim = 3 /\ img.color_variation > 25 THEN "reject"
    ELSE IF peak_spread_raises(img.hist_peaks) THEN "raise"
    ELSE IF img.edge_intensity > 30 THEN "reject"
    ELSE IF all(conditions(img)) THEN "accept"
    ELSE "reject"

\* Images on both sides of every threshold of the gate; 224 x 224 pixels.
Images ==
    [ndim : {2, 3}, color_variation : {25, 26}, edge_intensity : {30, 31},
     mean_intensity : {20, 21, 234, 235}, std_intensity : {15, 16, 79, 80},
     local_contrast_mean : {24, 25},
     hist_peaks : {{}, {10}, {10, 40}, {10, 41}},
     left_var : {0, 1}, right_var : {0, 1}, corr_tenths : {-4, -3, -2},
     max_histogram : {15052, 15053}, n_pixels : {50176}]

\* What the gate can answer for an upload.
GateResults == {is_xray_image(img) : img \in Images}

\* ------------------------------------------------------------ environment
\* The clock advances.
Tick ==
    /\ now < MaxTime
    /\ now' = now + 1
    /\ UNCHANGED <<db, session_state, token, pc, current_db_count, req, okCalls, demoted,
                   premium_consumed>>
    /\ UNCHANGED pure_vars

\* A browser opens the application with ?token=... in the URL: a new Streamlit
\* session, whose state init_session_state fills with the defaults.
Visit(s) ==
    /\ pc[s] \in Rest
    /\ session_state' = [session_state EXCEPT ![s] = init_session_state]
    /\ token' = [token EXCEPT ![s] = TRUE]
    /\ pc' = [pc EXCEPT ![s] = "idle"]
    /\ req' = [req EXCEPT ![s] = NewRequest]
    /\ UNCHANGED <<db, now, current_db_count, okCalls, demoted, premium_consumed>>
    /\ UNCHANGED pure_vars

\* update_user_subscription, called by the subscription-confirmation service:
\* one UPDATE of the row (of no row when the identity has none yet).
Subscribe(is_paid, expires_at) ==
    /\ db.exists
    /\ db' = [db EXCEPT !.paid_user = is_paid,
                        !.subscription_expires_at = expires_at,
                        !.premium_usage_count = 0]
    /\ demoted' = IF is_paid THEN [s \in Sessions |-> FALSE] ELSE demoted
    /\ premium_consumed' = IF premium_consumed = "some" THEN "none" ELSE premium_consumed
    /\ UNCHANGED <<now, session_state, token, pc, current_db_count, req, okCalls>>
    /\ UNCHANGED pure_vars

\* ------------------------------------------------------------ script runs
\* handle_token_authentication (app.py:68-69): runs when the URL carries a token
\* and SECRET_KEY was retrieved.  tok is what jwt.decode finds; the three *_ok
\* say whether each database call got a connection.
handle_token_authentication(s, tok, email, ensure_ok, usage_ok, status_ok) ==
    /\ pc[s] \in Rest
    /\ token[s]
    /\ IF tok # "valid" \/ ~ensure_ok
       THEN \* st.stop() after st.error: nothing is stored
            UNCHANGED <<db, session_state, token, pc, req>>
       ELSE LET row == ensure_user_exists(email, db)
                db_usage_count ==
                    IF usage_ok /\ email = UserEmail THEN row.usage_count ELSE 0
                stored == [session_state[s] EXCEPT !.user_email = email,
                                                   !.authenticated = TRUE,
                                                   !.usage_count = db_usage_count]
                status == get_user_status_from_db(email, status_ok, row)
            IN  /\ db' = row
                /\ session_state' =
                       [session_state EXCEPT ![s] = init_user_session(stored, status)]
                \* st.query_params.clear() and st.rerun() are not reached on KeyError
                /\ token' = [token EXCEPT ![s] = ~status.has_expiry]
                /\ pc' = [pc EXCEPT ![s] = "idle"]
                /\ req' = [req EXCEPT ![s] = NewRequest]
    /\ UNCHANGED <<now, current_db_count, okCalls, demoted, premium_consumed>>
    /\ UNCHANGED pure_vars

\* main(), not authenticated: the login message and st.stop().
Unauthorized(s) ==
    /\ pc[s] \in Rest
    /\ MainRuns(s)
    /\ ~session_state[s].authenticated
    /\ pc' = [pc EXCEPT ![s] = "Unauthorized"]
    /\ req' = [req EXCEPT ![s] = NewRequest]
    /\ UNCHANGED <<db, now, session_state, token, current_db_count, okCalls, demoted,
                   premium_consumed>>
    /\ UNCHANGED pure_vars

\* render_sidebar's Sign Out button: handle_signout deletes every key of the
\* session state, calls init_session_state and stops the script.
handle_signout(s) ==
    /\ pc[s] \in Rest
    /\ MainRuns(s)
    /\ session_state[s].authenticated
    /\ session_state' = [session_state EXCEPT ![s] = init_session_state]
    /\ pc' = [pc EXCEPT ![s] = "idle"]
    /\ req' = [req EXCEPT ![s] = NewRequest]
    /\ UNCHANGED <<db, now, token, current_db_count, okCalls, demoted, premium_consumed>>
    /\ UNCHANGED pure_vars

\* The quota check reached with no look at st.session_state.authenticated.
CheckUsageLimit_unauthenticated(s) ==
    /\ pc[s] \in Rest
    /\ MainRuns(s)
    /\ pc' = [pc EXCEPT ![s] =
                 IF check_usage_limit(session_state[s], now)
                 THEN "increment_usage" ELSE "QuotaExceeded"]
    /\ req' = [req EXCEPT ![s] = NewRequest]
    /\ UNCHANGED <<db, now, session_state, token, current_db_count, okCalls, demoted,
                   premium_consumed>>
    /\ UNCHANGED pure_vars

\* main() with an uploaded file, app.py:151-155: the quota check.
CheckUsageLimit(s) ==
    /\ pc[s] \in Rest
    /\ MainRuns(s)
    /\ session_state[s].authenticated
    /\ session_state' =
           [session_state EXCEPT ![s] = check_premium_subscription(@, now)]
    /\ pc' = [pc EXCEPT ![s] =
                 IF check_usage_limit(session_state[s], now)
                 THEN "increment_usage" ELSE "QuotaExceeded"]
    /\ req' = [req EXCEPT ![s] = NewRequest]
    /\ demoted' = [demoted EXCEPT ![s] =
                      @ \/ (IsPremium(session_state[s]) /\ ~IsPremium(session_state'[s]))]
    /\ UNCHANGED <<db, now, token, current_db_count, okCalls, premium_consumed>>
    /\ UNCHANGED pure_vars

\* increment_usage, db_utils.py:134-136: the premium branch.
IncrementUsagePremium(s) ==
    /\ pc[s] = "increment_usage"
    /\ IsPremium(session_state[s])
    /\ session_state' =
           [session_state EXCEPT ![s].premium_usage_count = @ + 1]
    /\ req' = [req EXCEPT ![s].charged = TRUE]
    /\ pc' = [pc EXCEPT ![s] = "decode"]
    /\ UNCHANGED <<db, now, token, current_db_count, okCalls, demoted, premium_consumed>>
    /\ UNCHANGED pure_vars

\* increment_usage, db_utils.py:138-143: no e-mail in the session.
IncrementUsageNoEmail(s) ==
    /\ pc[s] = "increment_usage"
    /\ ~IsPremium(session_state[s])
    /\ NoUserEmail(session_state[s])
    /\ pc' = [pc EXCEPT ![s] = "PersistenceFailure"]
    /\ UNCHANGED <<db, now, session_state, token, current_db_count, req, okCalls, demoted,
                   premium_consumed>>
    /\ UNCHANGED pure_vars

\* increment_usage, db_utils.py:145: the read of the stored count.
IncrementUsageRead(s, ok) ==
    /\ pc[s] = "increment_usage"
    /\ ~IsPremium(session_state[s])
    /\ ~NoUserEmail(session_state[s])
    /\ db.usage_count < MaxUsage
    /\ current_db_count' = [current_db_count EXCEPT ![s] = get_user_usage_from_db(ok)]
    /\ req' = [req EXCEPT ![s].readOk = ok]
    /\ pc' = [pc EXCEPT ![s] = "update_user_usage_in_db"]
    /\ UNCHANGED <<db, now, session_state, token, okCalls, demoted, premium_consumed>>
    /\ UNCHANGED pure_vars

\* increment_usage, db_utils.py:146-149: the session's count is set, then
\* update_user_usage_in_db writes the new count (ok: it got a connection).
IncrementUsageWrite(s, ok) ==
    LET new_count == current_db_count[s] + 1
        written == ok /\ db.exists
    IN  /\ pc[s] = "update_user_usage_in_db"
        /\ session_state' = [session_state EXCEPT ![s].usage_count = new_count]
        /\ db' = IF written THEN [db EXCEPT !.usage_count = new_count] ELSE db
        /\ req' = [req EXCEPT ![s].charged = TRUE, ![s].recorded = written]
        \* counted up to one past the free limit
        /\ okCalls' = IF written /\ okCalls <= FREE_USAGE_LIMIT
                      THEN okCalls + 1 ELSE okCalls
        /\ pc' = [pc EXCEPT ![s] = IF written THEN "decode" ELSE "PersistenceFailure"]
        \* the local dies with the call
        /\ current_db_count' = [current_db_count EXCEPT ![s] = 0]
        /\ UNCHANGED <<now, token, demoted, premium_consumed>>
        /\ UNCHANGED pure_vars

\* app.py:162-178: decoding the upload; pydicom or load_img raise on bad bytes.
Decode(s, ok) ==
    /\ pc[s] = "decode"
    /\ pc' = [pc EXCEPT ![s] = IF ok THEN "is_xray_image" ELSE "DecodeError"]
    /\ UNCHANGED <<db, now, session_state, token, current_db_count, req, okCalls, demoted,
                   premium_consumed>>
    /\ UNCHANGED pure_vars

\* app.py:180-183: the authenticity gate.
Gate(s, result) ==
    /\ pc[s] = "is_xray_image"
    /\ result \in {"accept", "reject"}
    /\ pc' = [pc EXCEPT ![s] = IF result = "accept" THEN "predict" ELSE "RejectedAsNonXray"]
    /\ UNCHANGED <<db, now, session_state, token, current_db_count, req, okCalls, demoted,
                   premium_consumed>>
    /\ UNCHANGED pure_vars

\* app.py:189-218: the primary classifier, the secondary one for Edema, the result.
Predict(s, multi_prediction) ==
    LET predicted_class_index == argmax(multi_prediction)
        predicted_class_name == MULTI_CLASS_NAMES[predicted_class_index + 1]
    IN  /\ pc[s] = "predict"
        /\ req' = [req EXCEPT ![s].multi_calls = @ + 1,
                              ![s].edema_calls =
                                  IF invokes_edema_model(predicted_class_name)
                                  THEN @ + 1 ELSE @]
        /\ pc' = [pc EXCEPT ![s] = "Delivered"]
        /\ premium_consumed' = IF premium_consumed = "none" /\ IsPremium(session_state[s])
                             THEN "some" ELSE premium_consumed
        /\ UNCHANGED <<db, now, session_state, token, current_db_count, okCalls, demoted>>
        /\ UNCHANGED pure_vars

\* Everything one session's script and browser can do.
SessionStep(s) ==
    \/ Visit(s)
    \/ \E tok \in {"valid", "expired", "invalid"}, email \in {UserEmail, EmptyEmail},
          ensure_ok, usage_ok, status_ok \in BOOLEAN :
          handle_token_authentication(s, tok, email, ensure_ok, usage_ok, status_ok)
    \/ Unauthorized(s)
    \/ handle_signout(s)
    \/ CheckUsageLimit(s)
    \/ IncrementUsageNoEmail(s)
    \/ \E ok \in BOOLEAN : IncrementUsageRead(s, ok)
    \/ \E ok \in BOOLEAN : IncrementUsageWrite(s, ok)
    \/ \E ok \in BOOLEAN : Decode(s, ok)
    \/ \E result \in GateResults : Gate(s, result)
    \/ \E multi_prediction \in RequestPredictions : Predict(s, multi_prediction)

\* The whole quota machine, the identity using one session at a time.
Next ==
    \/ Tick
    \/ \E is_paid \in BOOLEAN, expires_at \in ExpiryValues : Subscribe(is_paid, expires_at)
    \/ SessionStep(FirstSession)
    \/ IncrementUsagePremium(FirstSession)

\* The Free identity used from all the sessions at once (no subscription is
\* confirmed, so the premium branch and the clock play no part).
NextConcurrent == \E s \in Sessions : SessionStep(s)

Spec == Init /\ [][Next]_vars

SpecConcurrent == Init /\ [][NextConcurrent]_vars

\* The quota machine with the history of premium deliveries kept.
InitSubscription ==
    /\ InitMachine
    /\ InitPure
    /\ premium_consumed = "none"

SpecSubscription == InitSubscription /\ [][Next]_vars

\* The decision of app.py:189-218 as a function of the two classifiers' answers.
InitPipeline ==
    /\ InitQuota
    /\ image = "none"
    /\ gate_result = "none"
    /\ prediction \in [multi : Predictions, edema : EdemaOutputs]
    /\ report = NoReport

\* app.py:189-218 applied to the answers under study.
Classify ==
    /\ report = NoReport
    /\ report' = classify(prediction.multi, prediction.edema)
    /\ UNCHANGED <<image, gate_result, prediction>>
    /\ UNCHANGED quota_vars

SpecPipeline == InitPipeline /\ [][Classify]_vars

\* The gate as a function of the image it is given.
InitGate ==
    /\ InitQuota
    /\ image \in Images
    /\ gate_result = "none"
    /\ prediction = "none"
    /\ report = NoReport

\* app.py:181: is_xray_image applied to the image under study.
ApplyGate ==
    /\ gate_result = "none"
    /\ gate_result' = is_xray_image(image)
    /\ UNCHANGED <<image, prediction, report>>
    /\ UNCHANGED quota_vars

SpecGate == InitGate /\ [][ApplyGate]_vars

\* ------------------------------------------------------------------ claims
\* C1: a usage counter is incremented only after the gate accepted the image:
\* a request that ends rejected by the gate, or that failed to decode, has
\* touched no usage counter.
C1_IncrementOnlyAfterGate ==
    \A s \in Sessions :
        pc[s] \in {"RejectedAsNonXray", "DecodeError"} => ~req[s].charged

\* C2 as stated: the quota check of a Premium session whose subscription has
\* expired returns false and clears the tier flags, whatever the free count.
C2_ExpiredPremiumDenied ==
    [][\A s \in Sessions :
          ( /\ CheckUsageLimit(s)
            /\ IsPremium(session_state[s])
            /\ session_state[s].subscription_expires_at # None
            /\ now > session_state[s].subscription_expires_at )
          => /\ pc'[s] = "QuotaExceeded"
             /\ ~IsPremium(session_state'[s])]_vars

\* C2 amended: that check clears the tier flags (check_premium_subscription
\* returns false) and then decides as for a Free identity: it returns false
\* exactly when the free count is 6 or more.
C2_ExpiredPremiumGetsFreeQuota ==
    [][\A s \in Sessions :
          ( /\ CheckUsageLimit(s)
            /\ IsPremium(session_state[s])
            /\ session_state[s].subscription_expires_at # None
            /\ now > session_state[s].subscription_expires_at )
          => /\ ~session_state'[s].paid_user
             /\ ~session_state'[s].premium_user
             /\ ~check_premium_subscription_result(session_state[s], now)
             /\ (pc'[s] = "QuotaExceeded") = (session_state[s].usage_count >= 6)
             /\ (pc'[s] = "increment_usage") = (session_state[s].usage_count < 6)]_vars

\* C2's case: an expired Premium session with premium uses left was demoted by
\* its check and let through on its free quota.
C2_Witness ==
    \E s \in Sessions :
        /\ pc[s] = "increment_usage"
        /\ demoted[s]
        /\ ~IsPremium(session_state[s])
        /\ session_state[s].subscription_expires_at # None
        /\ now > session_state[s].subscription_expires_at
        /\ session_state[s].premium_usage_count < 20

\* C3: recordUsage is atomic per identity: every increment_usage that read the
\* stored count and wrote it back raises the stored count by exactly one.
C3_RecordUsageAtomic ==
    [][\A s \in Sessions :
          (IncrementUsageWrite(s, TRUE) /\ req[s].readOk /\ db.exists)
          => db'.usage_count = db.usage_count + 1]_vars

\* C4: fail closed: a classifier runs, and a prediction is delivered, only for
\* a request whose usage was read from and recorded in the backing store.
C4_FailClosed ==
    \A s \in Sessions :
        (pc[s] = "Delivered" \/ req[s].multi_calls > 0)
        => (req[s].recorded /\ req[s].readOk)

\* C5: once six increment_usage calls of a fresh Free identity have succeeded
\* in its one session, the quota check of that session returns false for as
\* long as the identity is Free.
C5_SixFreeUsesThenDenied ==
    \A s \in Sessions :
        ( /\ okCalls = 6
          /\ pc[s] \in Rest
          /\ session_state[s].authenticated
          /\ session_state[s].user_email = UserEmail
          /\ ~IsPremium(session_state[s])
          /\ ~db.paid_user )
        => ~check_usage_limit(session_state[s], now)

\* C6: every premium increment_usage adds one to the stored
\* premium_usage_count, which then equals the session's premium count.
C6_PremiumUsePersisted ==
    [][\A s \in Sessions :
          IncrementUsagePremium(s)
          => /\ db'.premium_usage_count = db.premium_usage_count + 1
             /\ db'.premium_usage_count = session_state'[s].premium_usage_count]_vars

\* C7: a request the quota check rejects touches no counter and invokes no
\* classifier; and the recordUsage of a Free identity whose count is 5 makes
\* the count 6, after which the check rejects.
C7_QuotaRejectionAndLastFreeUse ==
    [][\A s \in Sessions :
          /\ pc'[s] = "QuotaExceeded"
             => /\ ~req'[s].charged
                /\ req'[s].multi_calls = 0 /\ req'[s].edema_calls = 0
                /\ (pc[s] \in Rest => session_state'[s].usage_count = session_state[s].usage_count)
                /\ db' = db
          /\ ( /\ IncrementUsageWrite(s, TRUE)
               /\ db.exists
               /\ session_state[s].usage_count = 5
               /\ db.usage_count = 5 )
             => /\ session_state'[s].usage_count = 6
                /\ db'.usage_count = 6
                /\ ~check_usage_limit(session_state'[s], now)]_vars

\* C8 as stated: the quota check changes nothing, in the session or the store.
C8_CheckIsSideEffectFree ==
    [][\A s \in Sessions :
          CheckUsageLimit(s)
          => /\ session_state'[s] = session_state[s]
             /\ db' = db]_vars

\* C8 amended: the quota check leaves both counts, expiresAt and the store as
\* they were; the only thing it changes is the session's tier flags, which it
\* clears (both of them) when the subscription is expired or used up.
C8_CheckOnlyClearsTierFlags ==
    [][\A s \in Sessions :
          CheckUsageLimit(s)
          => LET old == session_state[s]
                 new == session_state'[s]
             IN  /\ db' = db
                 /\ new.usage_count = old.usage_count
                 /\ new.premium_usage_count = old.premium_usage_count
                 /\ new.subscription_expires_at = old.subscription_expires_at
                 /\ new.authenticated = old.authenticated
                 /\ new.user_email = old.user_email
                 /\ \/ new.paid_user = old.paid_user /\ new.premium_user = old.premium_user
                    \/ /\ old.paid_user \/ old.premium_user
                       /\ ~new.paid_user /\ ~new.premium_user
                       /\ \/ old.premium_usage_count >= 20
                          \/ /\ old.subscription_expires_at # None
                             /\ now > old.subscription_expires_at]_vars

\* C8's case: a check has just cleared the flags of a session that used up its
\* 20 premium classifications, and rejected the request.
C8_Witness ==
    \E s \in Sessions :
        /\ pc[s] = "QuotaExceeded"
        /\ demoted[s]
        /\ ~IsPremium(session_state[s])
        /\ session_state[s].premium_usage_count = 20

\* C9: a session that a quota check demoted to Free does not hold the Premium
\* tier again until a new subscription is confirmed.
C9_NoPremiumWithoutConfirmation ==
    \A s \in Sessions : demoted[s] => ~IsPremium(session_state[s])

\* C10: the quota check of a Premium session clears the tier flags if and only
\* if expiresAt is set and passed, or the premium count is 20 or more;
\* otherwise the session keeps its flags and the request is allowed.  And the
\* flags of a session that stays signed in are cleared by no other step.
C10_LazyDemotion ==
    [][\A s \in Sessions :
          LET old == session_state[s]
              new == session_state'[s]
              crossed == \/ (old.subscription_expires_at # None
                             /\ now > old.subscription_expires_at)
                         \/ old.premium_usage_count >= 20
          IN  /\ (CheckUsageLimit(s) /\ (old.paid_user \/ old.premium_user))
                 => /\ (~new.paid_user /\ ~new.premium_user) = crossed
                    /\ ~crossed => /\ new = old
                                   /\ pc'[s] = "increment_usage"
              /\ ( /\ old.paid_user \/ old.premium_user
                   /\ ~(new.paid_user \/ new.premium_user)
                   /\ new.authenticated )
                 => CheckUsageLimit(s)]_vars

\* C10's case: a check let a Premium session through with its tier, on its
\* last premium classification.
C10_Witness ==
    \E s \in Sessions :
        /\ pc[s] = "increment_usage"
        /\ IsPremium(session_state[s])
        /\ session_state[s].premium_usage_count = 19

\* C11: the secondary classifier runs if and only if the primary's arg-max class
\* is Edema (index 0, which np.argmax also picks on a tie for the maximum); for
\* a top class of Normal, Pneumonia, Tuberculosis or Effusion it never runs; and
\* the primary runs exactly once per classified request.
C11_SecondaryIffEdema ==
    [][\A s \in Sessions :
          /\ pc[s] = "predict" =>
                \A p \in RequestPredictions :
                    \/ /\ req'[s].multi_calls = 1
                       /\ req'[s].edema_calls = 1 <=> (\A j \in DOMAIN p : p[j] <= p[0])
                       /\ req'[s].edema_calls = 0 <=> (\E j \in DOMAIN p : p[j] > p[0])
                    \/ ~Predict(s, p)
          /\ pc'[s] = "Delivered" => req'[s].multi_calls = 1
          /\ pc'[s] # "Delivered" => req'[s].multi_calls = 0 /\ req'[s].edema_calls = 0
      ]_vars

\* A request was classified as Edema and the specialist was consulted.
C11_Witness ==
    \E s \in Sessions :
        /\ pc[s] = "Delivered"
        /\ req[s].multi_calls = 1
        /\ req[s].edema_calls = 1

\* C12: for every pair of classifier answers the reported class is the
\* primary's selected class and never NotEdema; when the secondary classifier
\* ran, an answer >= 0.5 is reported as Edema with the secondary's confidence,
\* marked specialist opinion, and a lower one as the primary's Edema label with
\* the primary's confidence and the note that the second opinion leans against.
C12_PrimaryLabelNeverOverridden ==
    report # NoReport =>
        LET p == prediction.multi
            top == CHOOSE i \in DOMAIN p :
                       /\ \A j \in DOMAIN p : p[j] <= p[i]
                       /\ \A j \in DOMAIN p : j < i => p[j] < p[i]
        IN  /\ report.shown.class_name = MULTI_CLASS_NAMES[top + 1]
            /\ report.shown.class_name # "NotEdema"
            /\ report.edema_invoked =>
                   IF prediction.edema >= 50
                   THEN /\ report.shown.class_name = "Edema"
                        /\ report.shown.confidence = prediction.edema
                        /\ report.shown.specialist
                   ELSE /\ report.shown.class_name = "Edema"
                        /\ report.shown.confidence = p[top]
                        /\ ~report.shown.specialist
                        /\ report.shown.note = "second_opinion_not_edema"
            /\ ~report.edema_invoked =>
                   /\ report.shown.confidence = p[top]
                   /\ ~report.shown.specialist

\* The primary chose Edema and the secondary answered below 0.5.
C12_Witness ==
    /\ report # NoReport
    /\ report.edema_invoked
    /\ prediction.edema < 50
    /\ report.shown.class_name = "Edema"

\* C13: the gate accepts if and only if (the image is single-channel or its
\* colour variation is <= 25) and edge intensity <= 30 and the seven conditions
\* all hold; an image that violates any one of them is rejected whatever its
\* other features are.
C13_VerdictIsConjunction ==
    gate_result # "none" =>
        (gate_result = "accept" <=>
            /\ image.ndim = 2 \/ image.color_variation <= 25
            /\ image.edge_intensity <= 30
            /\ 20 < image.mean_intensity /\ image.mean_intensity < 235
            /\ 15 < image.std_intensity /\ image.std_intensity < 80
            /\ image.local_contrast_mean < 25
            /\ Cardinality(image.hist_peaks) >= 2
            /\ \E a, b \in image.hist_peaks : b - a > 30
            /\ image.left_var # 0 /\ image.right_var # 0 /\ image.corr_tenths > -3
            /\ 10 * image.max_histogram < 3 * image.n_pixels)

\* An image was accepted by the gate.
C13_Witness == gate_result = "accept" /\ image.ndim = 3

\* C14: an undefined symmetry score (a half of the smoothed histogram with zero
\* variance) makes the gate answer reject, as a value; the gate never raises;
\* with fewer than 2 peak bins peak_spread is 0 and the answer is reject.
C14_UndefinedSymmetryRejects ==
    gate_result # "none" =>
        /\ gate_result \in {"accept", "reject"}
        /\ (image.left_var = 0 \/ image.right_var = 0) => gate_result = "reject"
        /\ Cardinality(image.hist_peaks) < 2 =>
               peak_spread(image.hist_peaks) = 0 /\ gate_result = "reject"

\* An image that passes everything but has an undefined symmetry score was
\* rejected.
C14_Witness ==
    /\ gate_result = "reject"
    /\ image.left_var = 0
    /\ image.ndim = 2
    /\ image.edge_intensity <= 30
    /\ image.mean_intensity = 21
    /\ image.std_intensity = 16
    /\ image.local_contrast_mean < 25
    /\ image.hist_peaks = {10, 41}
    /\ 10 * image.max_histogram < 3 * image.n_pixels

\* C15: the stored free count of an identity never exceeds the free limit of 6,
\* also when the identity is used from several sessions whose cached
\* usage_count was loaded at different times.
C15_StoredFreeCountAtMostLimit == db.usage_count <= FREE_USAGE_LIMIT

\* C16: the stored free count of an identity never decreases, also when the
\* read of a recording call fails and its write then succeeds.
C16_StoredFreeCountMonotonic ==
    [][db'.usage_count >= db.usage_count]_vars

\* C17: a recording call that returns false (no e-mail in the session, failed
\* write, missing row) leaves the session's usage_count and
\* premium_usage_count and the stored counters as they were before it.
C17_FailedRecordChangesNothing ==
    [][\A s \in Sessions :
          (pc[s] # "PersistenceFailure" /\ pc'[s] = "PersistenceFailure")
          => /\ session_state'[s].usage_count = session_state[s].usage_count
             /\ session_state'[s].premium_usage_count = session_state[s].premium_usage_count
             /\ db'.usage_count = db.usage_count
             /\ db'.premium_usage_count = db.premium_usage_count
      ]_vars

\* C18: within one subscription, the premium count a Premium session carries
\* (after sign-outs and token re-authentications too) is never lower than the
\* number of premium classifications the identity has already consumed: once
\* one has been consumed the count is at least 1, so at most 20 are served.
C18_PremiumCountSurvivesReauth ==
    \A s \in Sessions :
        ( /\ premium_consumed = "some"
          /\ session_state[s].authenticated
          /\ session_state[s].user_email = UserEmail
          /\ IsPremium(session_state[s]) )
        => session_state[s].premium_usage_count >= 1

\* C19: a session that is not authenticated (never signed in, token refused,
\* or signed out, which puts every session variable back to its default) has
\* no request that touches a usage counter, runs the gate or calls a
\* classifier; a session is authenticated only with the e-mail of its token.
C19_NothingBeforeAuthentication ==
    [][\A s \in Sessions :
          /\ ~session_state'[s].authenticated =>
                 /\ pc'[s] \in {"idle", "Unauthorized"}
                 /\ req'[s] = NewRequest
                 /\ session_state'[s] = init_session_state
          /\ ( \/ req'[s].charged
               \/ req'[s].multi_calls > 0
               \/ pc'[s] \in {"update_user_usage_in_db", "decode", "is_xray_image", "predict",
                              "DecodeError", "RejectedAsNonXray", "Delivered"} )
             => /\ session_state'[s].authenticated
                /\ session_state'[s].user_email = UserEmail
          /\ (~session_state[s].authenticated /\ session_state'[s].authenticated)
             => \E tok \in {"valid"}, email \in {UserEmail, EmptyEmail},
                   ensure_ok, usage_ok, status_ok \in BOOLEAN :
                   handle_token_authentication(s, tok, email, ensure_ok, usage_ok, status_ok)
      ]_vars

\* A session that had been served signed out and is shown the login message.
C19_Witness ==
    \E s \in Sessions :
        /\ pc[s] = "Unauthorized"
        /\ ~session_state[s].authenticated
        /\ db.usage_count >= 1

====
